---- MODULE Spec2Model ----
(***************************************************************************)
(* Model of sandbox_fs.c, an LD_PRELOAD shim that denies libc path calls   *)
(* whose path lies beneath a configured forbidden prefix.                  *)
(*                                                                         *)
(* C strings are sequences of one-character strings; the terminating NUL   *)
(* is the end of the sequence.  A null pointer is the value NULL.          *)
(***************************************************************************)
EXTENDS Integers, Sequences, FiniteSets, TLC

VARIABLES
    paths_env,            \* getenv("SANDBOX_BLOCKED_PATHS"): NULL or a string
    oom,                  \* allocations of the loader that fail: 0 = strdup(paths), k = k-th strdup(token)
    init_once,            \* pthread_once control: "INIT" or "DONE"
    initialized,          \* static int initialized
    init_failed,          \* static int init_failed
    blocked_paths,        \* static char *blocked_paths[]: the entries stored so far
    blocked_paths_count,  \* static int blocked_paths_count
    dirs,                 \* filesystem: canonical paths of the directories
    files,                \* filesystem: canonical paths of the regular files
    links,                \* filesystem: set of <<canonical path of a symlink, its target>>
    cwd,                  \* the process's current working directory (canonical)
    rtld_next,            \* the symbols dlsym(RTLD_NEXT, name) finds
    changes,              \* number of calls that have changed directories or files
    pc,                   \* the caller's position: "idle", "returned" from a hook, or "crashed"
    last,                 \* what the last hook call did (see the hooks below)
    thread,               \* concurrent loading: each thread's position
    loader,               \* concurrent loading: the loader body's progress
    pending,              \* a second thread's open() between its check and its original
    freed                 \* sandbox_cleanup has freed the entries of blocked_paths

vars == <<paths_env, oom, init_once, initialized, init_failed, blocked_paths,
          blocked_paths_count, dirs, files, links, cwd, rtld_next, changes, pc, last,
          thread, loader, pending, freed>>

(***************************************************************************)
(* Bounds and constants                                                    *)
(***************************************************************************)
PATH_MAX == 20
MAX_BLOCKED_PATHS == 3
MAXSYMLINKS == 3
MaxLinks == 1
MaxChanges == 1

NULL == <<"NULL">>
AT_FDCWD == -100
\* errno values, by name; NoError: the call did not set errno
NoError == "none"
EACCES == "EACCES"
ENOENT == "ENOENT"
EBADF == "EBADF"
EFAULT == "EFAULT"
EINVAL == "EINVAL"
EEXIST == "EEXIST"
ENOTDIR == "ENOTDIR"
ENAMETOOLONG == "ENAMETOOLONG"
ELOOP == "ELOOP"
EISDIR == "EISDIR"
ENOTEMPTY == "ENOTEMPTY"

(***************************************************************************)
(* C string helpers                                                        *)
(***************************************************************************)
Max(a, b) == IF a >= b THEN a ELSE b
Min(a, b) == IF a <= b THEN a ELSE b

\* s[i] for a 0-based index into a NUL-terminated string
CharAt(s, i) == IF i < Len(s) THEN s[i + 1] ELSE "NUL"

\* strncmp(a, b, n) == 0
StrncmpEq(a, b, n) ==
    \A i \in 0..(n - 1) :
        CharAt(a, i) = CharAt(b, i)

\* index (1-based) of the first occurrence of character c in s, or Len(s)+1
FirstIndex(s, c) ==
    LET hits == {i \in 1..Len(s) : s[i] = c}
    IN IF hits = {} THEN Len(s) + 1 ELSE CHOOSE i \in hits : \A j \in hits : i <= j

\* index (1-based) of the last occurrence of character c in s, or 0  (strrchr)
LastIndex(s, c) ==
    LET hits == {i \in 1..Len(s) : s[i] = c}
    IN IF hits = {} THEN 0 ELSE CHOOSE i \in hits : \A j \in hits : i >= j

\* the successive tokens strtok_r(s, delim, ...) returns: the maximal non-empty
\* runs of characters other than delim
RECURSIVE strtok_r(_, _)
strtok_r(s, delim) ==
    IF s = <<>> THEN <<>>
    ELSE IF Head(s) = delim THEN strtok_r(Tail(s), delim)
    ELSE <<SubSeq(s, 1, FirstIndex(s, delim) - 1)>>
         \o strtok_r(SubSeq(s, FirstIndex(s, delim) + 1, Len(s)), delim)

\* the components joined as "/c1/c2/...", the empty list giving ""
RECURSIVE JoinSlash(_)
JoinSlash(comps) ==
    IF comps = <<>> THEN <<>>
    ELSE <<"/">> \o Head(comps) \o JoinSlash(Tail(comps))

Front(s) == SubSeq(s, 1, Len(s) - 1)

(***************************************************************************)
(* Names and paths used as inputs                                          *)
(***************************************************************************)
n_app == <<"a", "p", "p">>
n_apps_data == <<".", "a", "p", "p", "s", "_", "d", "a", "t", "a">>
n_applications == <<"a", "p", "p", "l", "i", "c", "a", "t", "i", "o", "n", "s">>
n_foo == <<"f", "o", "o">>
n_tmp == <<"t", "m", "p">>
n_ws == <<"w", "s">>
n_ok == <<"o", "k">>
n_d == <<"d">>
n_x == <<"x">>
n_l == <<"l">>
n_l1 == <<"l", "1">>
n_la == <<"l", "a">>
n_new == <<"n", "e", "w">>
n_k == <<"k">>
dot == <<".">>
dotdot == <<".", ".">>
\* a directory name that makes /tmp/<name> PATH_MAX - 2 characters long
n_long == [i \in 1..(PATH_MAX - 7) |-> "d"]

Root == <<"/">>
\* "/c1/c2/..." for a list of components, "/" for the empty list
PathOf(comps) == IF comps = <<>> THEN Root ELSE JoinSlash(comps)
Rel(comps) == Tail(JoinSlash(comps))
LongDir == PathOf(<<n_tmp, n_long>>)

DEFAULT_BLOCKED_PATHS == PathOf(<<n_app>>) \o <<":">> \o PathOf(<<n_apps_data>>)

(***************************************************************************)
(* Configuration loader                                                    *)
(***************************************************************************)
\* while (*token == ' ') token++;
RECURSIVE SkipLeadingSpaces(_)
SkipLeadingSpaces(token) ==
    IF token # <<>> /\ Head(token) = " " THEN SkipLeadingSpaces(Tail(token)) ELSE token

\* while (end > token && *end == c) *end-- = '\0';
RECURSIVE StripTrailing(_, _)
StripTrailing(token, c) ==
    IF Len(token) > 1 /\ token[Len(token)] = c THEN StripTrailing(Front(token), c) ELSE token

TrimToken(token) == StripTrailing(StripTrailing(SkipLeadingSpaces(token), " "), "/")

\* the while loop over the tokens: stored is blocked_paths so far, attempt numbers
\* the strdup(token) calls, those in fails returning NULL
RECURSIVE ParseTokens(_, _, _, _)
\* one round of the loop, token being the trimmed token
StoreToken(token, rest, stored, attempt, fails) ==
    IF Len(token) > 0
    THEN IF attempt \in fails
         THEN ParseTokens(rest, stored, attempt + 1, fails)
         ELSE ParseTokens(rest, Append(stored, token), attempt + 1, fails)
    ELSE ParseTokens(rest, stored, attempt, fails)

ParseTokens(tokens, stored, attempt, fails) ==
    IF tokens = <<>> \/ Len(stored) >= MAX_BLOCKED_PATHS THEN stored
    ELSE StoreToken(TrimToken(Head(tokens)), Tail(tokens), stored, attempt, fails)

\* the static configuration as a record
Config == [initialized |-> initialized, init_failed |-> init_failed,
           blocked_paths |-> blocked_paths, blocked_paths_count |-> blocked_paths_count]

\* the end of init_blocked_paths(): the entries are stored, initialized = 1
Loaded(c, stored) == [c EXCEPT !.blocked_paths = stored,
                               !.blocked_paths_count = Len(stored),
                               !.initialized = 1]

\* the loader taking the default list when the variable is set but empty
init_blocked_paths_default_on_empty(c, env, fails) ==
    IF c.initialized = 1 THEN c
    ELSE IF 0 \in fails THEN [c EXCEPT !.init_failed = 1]
    ELSE Loaded(c, ParseTokens(strtok_r(IF env # NULL /\ env # <<>> THEN env
                                        ELSE DEFAULT_BLOCKED_PATHS, ":"),
                               c.blocked_paths, 1, fails))

\* the configuration init_blocked_paths() leaves behind, started from c
init_blocked_paths(c, env, fails) ==
    IF c.initialized = 1 THEN c
    ELSE IF 0 \in fails THEN [c EXCEPT !.init_failed = 1]
    ELSE Loaded(c, ParseTokens(strtok_r(IF env # NULL THEN env ELSE DEFAULT_BLOCKED_PATHS, ":"),
                               c.blocked_paths, 1, fails))

\* the tokens strtok_r returns for the environment value (the default when unset)
EnvTokensOf(env) == strtok_r(IF env # NULL THEN env ELSE DEFAULT_BLOCKED_PATHS, ":")

\* the configuration after ensure_initialized(): pthread_once runs the loader
\* unless it has run
ensure_initialized == IF init_once = "DONE" THEN Config
                      ELSE init_blocked_paths(Config, paths_env, oom)

(***************************************************************************)
(* The host: the filesystem as the kernel resolves it, getcwd, realpath    *)
(***************************************************************************)
IsLink(p) == \E l \in links : l[1] = p
LinkTarget(p) == (CHOOSE l \in links : l[1] = p)[2]
Exists(p) == p \in dirs \/ p \in files \/ IsLink(p)

Fail(e) == [ok |-> FALSE, loc |-> <<>>, errno |-> e]
Found(comps) == [ok |-> TRUE, loc |-> comps, errno |-> NoError]

\* Path resolution as the kernel does it: at is the directory reached so far
\* (a list of components), tokens the components still to walk.  A symlink is
\* followed where it stands, ".." leaves the directory actually reached.
\* create: a missing final component is accepted (the location to create);
\* follow: a final component that is a symlink is followed.
RECURSIVE Walk(_, _, _, _, _)
\* one step onto the entry named p, the path of child
Step(at, child, p, rest, budget, create, follow) ==
    IF IsLink(p) /\ (follow \/ rest # <<>>)
    THEN IF budget = 0 THEN Fail(ELOOP)
         ELSE IF LinkTarget(p) = <<>> THEN Fail(ENOENT)
         ELSE Walk(IF Head(LinkTarget(p)) = "/" THEN <<>> ELSE at,
                   strtok_r(LinkTarget(p), "/") \o rest, budget - 1, create, follow)
    ELSE IF IsLink(p) THEN Found(child)
    ELSE IF p \in dirs THEN Walk(child, rest, budget, create, follow)
    ELSE IF p \in files THEN IF rest = <<>> THEN Found(child) ELSE Fail(ENOTDIR)
    ELSE IF create /\ rest = <<>> THEN Found(child)
    ELSE Fail(ENOENT)

Walk(at, tokens, budget, create, follow) ==
    IF tokens = <<>> THEN Found(at)
    ELSE IF Head(tokens) = dot THEN Walk(at, Tail(tokens), budget, create, follow)
    ELSE IF Head(tokens) = dotdot
    THEN Walk(IF at = <<>> THEN at ELSE Front(at), Tail(tokens), budget, create, follow)
    ELSE Step(at, Append(at, Head(tokens)), PathOf(Append(at, Head(tokens))), Tail(tokens),
              budget, create, follow)

\* a trailing separator asks for a directory
TrailingSlash(path, r) ==
    IF r.ok /\ path[Len(path)] = "/" /\ PathOf(r.loc) \notin dirs
    THEN Fail(IF Exists(PathOf(r.loc)) THEN ENOTDIR ELSE ENOENT)
    ELSE r

\* the location a path names for the kernel, from the working directory wd
Resolve(path, wd, create, follow) ==
    IF path = NULL THEN Fail(EFAULT)
    ELSE IF path = <<>> THEN Fail(ENOENT)
    ELSE IF Len(path) >= PATH_MAX THEN Fail(ENAMETOOLONG)
    ELSE IF Head(path) # "/" /\ wd \notin dirs THEN Fail(ENOENT)
    ELSE TrailingSlash(path, Walk(IF Head(path) = "/" THEN <<>> ELSE strtok_r(wd, "/"),
                                  strtok_r(path, "/"), MAXSYMLINKS, create, follow))

\* getcwd(buf, PATH_MAX): NULL when the directory is gone or does not fit
getcwd == IF cwd \in dirs /\ Len(cwd) < PATH_MAX THEN cwd ELSE NULL

\* a resolved location as realpath returns it: it must fit PATH_MAX
Resolved(r) == IF r.ok /\ Len(PathOf(r.loc)) < PATH_MAX THEN PathOf(r.loc) ELSE NULL

\* the original realpath(path, resolved), reached through dlsym(RTLD_NEXT):
\* every component must exist
orig_realpath(path) == Resolved(Resolve(path, cwd, FALSE, TRUE))

(***************************************************************************)
(* Path checking logic                                                     *)
(***************************************************************************)
\* the component stack after the strtok_r loop of normalize_path
RECURSIVE NormalizeComponents(_, _)
NormalizeComponents(tokens, components) ==
    IF tokens = <<>> THEN components
    ELSE IF Head(tokens) = dot THEN NormalizeComponents(Tail(tokens), components)
    ELSE IF Head(tokens) = dotdot
    THEN NormalizeComponents(Tail(tokens),
                             IF Len(components) > 0 THEN Front(components) ELSE components)
    ELSE IF Len(Head(tokens)) > 0
    THEN NormalizeComponents(Tail(tokens), Append(components, Head(tokens)))
    ELSE NormalizeComponents(Tail(tokens), components)

\* the rebuild loop: NULL as soon as one more component does not fit
RECURSIVE RebuildPath(_, _, _)
RebuildPath(resolved, components, resolved_size) ==
    IF components = <<>> THEN resolved
    ELSE IF Len(resolved) + 1 + Len(Head(components)) >= resolved_size THEN NULL
    ELSE RebuildPath(resolved \o <<"/">> \o Head(components), Tail(components), resolved_size)

\* the absolute form of the path: cwd + "/" + path when it is relative
MakeAbsolute(path, wd) ==
    IF CharAt(path, 0) # "/"
    THEN IF wd = NULL THEN NULL
         ELSE IF Len(wd) + 1 + Len(path) >= PATH_MAX THEN NULL
         ELSE wd \o <<"/">> \o path
    ELSE IF Len(path) >= PATH_MAX THEN NULL ELSE path

\* the rebuilt path returned as it is, empty when no component remains
RootIfEmpty_skipped(resolved) == resolved

\* if (resolved[0] == '\0') strcpy(resolved, "/")
RootIfEmpty(resolved) == IF resolved = <<>> THEN Root ELSE resolved

NormalizeAbsolute(absolute, resolved_size) ==
    IF absolute = NULL THEN NULL
    ELSE RootIfEmpty(RebuildPath(<<>>, NormalizeComponents(strtok_r(absolute, "/"), <<>>),
                                 resolved_size))

normalize_path(path, resolved_size) ==
    IF path = NULL \/ resolved_size = 0 THEN NULL
    ELSE NormalizeAbsolute(MakeAbsolute(path, getcwd), resolved_size)

\* the comparison without the test of the character after the prefix
prefix_match_no_boundary(candidate, blocked) ==
    StrncmpEq(candidate, blocked, Len(blocked))

\* the body of each for-loop over blocked_paths: strncmp, then the next character
prefix_match(candidate, blocked) ==
    LET blocked_len == Len(blocked)
    IN /\ StrncmpEq(candidate, blocked, blocked_len)
       /\ CharAt(candidate, blocked_len) \in {"NUL", "/"}

\* the textual loop comparing for equality only
check_normalized_exact(normalized, c) ==
    \E i \in 1..c.blocked_paths_count : normalized = c.blocked_paths[i]

\* the four loops, one per place a candidate is compared
check_normalized(normalized, c) ==
    \E i \in 1..c.blocked_paths_count : prefix_match(normalized, c.blocked_paths[i])
check_resolved(resolved, c) ==
    \E i \in 1..c.blocked_paths_count : prefix_match(resolved, c.blocked_paths[i])
check_cwd_resolved(resolved, c) ==
    \E i \in 1..c.blocked_paths_count : prefix_match(resolved, c.blocked_paths[i])
check_parent_resolved(full_resolved, c) ==
    \E i \in 1..c.blocked_paths_count : prefix_match(full_resolved, c.blocked_paths[i])

B(b) == IF b THEN 1 ELSE 0

\* the symbols looked up with dlsym(RTLD_NEXT, ...) whose absence is modelled
NextSymbols == {"realpath", "readlink"}

\* the names the library defines, which the dynamic linker binds to it for
\* every caller that uses the public name
Interposed ==
    {"open", "open64", "openat", "openat64", "creat", "creat64", "fopen", "fopen64",
     "freopen", "freopen64", "stat", "stat64", "lstat", "lstat64", "fstatat", "fstatat64",
     "__xstat", "__xstat64", "__lxstat", "__lxstat64", "__fxstatat", "__fxstatat64",
     "statx", "access", "faccessat", "euidaccess", "eaccess", "opendir", "chdir", "mkdir",
     "mkdirat", "rmdir", "unlink", "unlinkat", "rename", "renameat", "renameat2", "link",
     "linkat", "symlink", "symlinkat", "readlink", "readlinkat", "chmod", "fchmodat",
     "chown", "lchown", "fchownat", "truncate", "truncate64", "getxattr", "lgetxattr",
     "setxattr", "lsetxattr", "removexattr", "lremovexattr", "listxattr", "llistxattr",
     "realpath", "canonicalize_file_name", "execve", "execveat", "nftw", "ftw", "utime",
     "utimes", "utimensat", "futimesat", "mknod", "mknodat", "mkfifo", "mkfifoat"}

\* a call by the public name: the first definition in lookup order, which is
\* the library's own for an interposed name
plt_lookup(sym) == IF sym \in Interposed THEN "shim" ELSE "next"

\* dlsym(RTLD_NEXT, sym): the definition after the library in lookup order,
\* or a null pointer
dlsym_next(sym) == IF sym \in NextSymbols /\ sym \notin rtld_next THEN "null" ELSE "next"

\* a use of a library symbol by caller: <<caller, symbol, what it is bound to>>
Use(caller, sym) == <<caller, sym, dlsym_next(sym)>>
Direct(caller, sym) == <<caller, sym, plt_lookup(sym)>>
\* result of a check: the return value, the comparisons made (each a
\* <<place, candidate, matched>>) and whether ensure_initialized() was called
\* events: what kept the check from deciding (a missing symbol, an overflow,
\* an unresolved descriptor); calls: the library symbols used on the way
Ret(r) == [ret |-> r, trace |-> <<>>, init |-> FALSE, events |-> {}, calls |-> {}]
Cmp(place, candidate, matched) ==
    [ret |-> B(matched), trace |-> <<<<place, candidate, matched>>>>, init |-> FALSE,
     events |-> {}, calls |-> {}]
\* the result r of a part of the check in which the uses us were made
Called(r, us) == [r EXCEPT !.calls = @ \cup us]
\* a return forced by event e
Event(r, e) == [Ret(r) EXCEPT !.events = {e}]

\* the cwd branch: the path has no separator at all; resolved is realpath(cwd)
cwd_branch(resolved, c) ==
    IF resolved # NULL THEN Cmp("cwd", resolved, check_cwd_resolved(resolved, c))
    ELSE Ret(0)

\* the parent branch: full_resolved is realpath(parent) + "/" + filename
parent_rebuilt(full_resolved, c) ==
    IF Len(full_resolved) < PATH_MAX
    THEN Cmp("parent", full_resolved, check_parent_resolved(full_resolved, c))
    ELSE Event(0, "overflow:full_resolved")

parent_branch(resolved, filename, c) ==
    IF resolved # NULL THEN parent_rebuilt(resolved \o <<"/">> \o filename, c)
    ELSE Ret(0)

\* after realpath(path) has failed; last_slash is strrchr(path_copy, '/')
unresolved_branch(path, last_slash, c) ==
    IF last_slash = 0
    THEN Called(cwd_branch(IF getcwd # NULL THEN orig_realpath(getcwd) ELSE NULL, c),
                {Direct("is_resolved_path_blocked", "getcwd")})
    ELSE parent_branch(orig_realpath(IF last_slash = 1 THEN Root
                                     ELSE SubSeq(path, 1, last_slash - 1)),
                       SubSeq(path, last_slash + 1, Len(path)), c)

\* the resolution check answering blocked when realpath(path) fails
resolved_branch_strict(path, resolved, c) ==
    IF resolved # NULL THEN Cmp("resolved", resolved, check_resolved(resolved, c))
    ELSE Ret(1)

\* resolved is realpath(path)
resolved_branch(path, resolved, c) ==
    IF resolved # NULL THEN Cmp("resolved", resolved, check_resolved(resolved, c))
    ELSE IF Len(path) >= PATH_MAX THEN Event(0, "overflow:path_copy")
    ELSE unresolved_branch(path, LastIndex(path, "/"), c)

is_resolved_path_blocked(path, c) ==
    IF path = NULL THEN Ret(0)
    ELSE Called(IF "realpath" \notin rtld_next THEN Event(0, "nosym:realpath")
                ELSE resolved_branch(path, orig_realpath(path), c),
                {Use("is_resolved_path_blocked", "realpath")})

\* the results of the two checks of is_path_blocked put together
Second(first, second) ==
    [ret |-> second.ret, trace |-> first.trace \o second.trace, init |-> TRUE,
     events |-> first.events \cup second.events,
     calls |-> first.calls \cup second.calls]

\* first is the result of the textual check
AfterTextual(normalized, first, c) ==
    IF first.ret = 1 THEN [first EXCEPT !.init = TRUE]
    ELSE Second(first, is_resolved_path_blocked(normalized, c))

CheckNormalized(normalized, c) ==
    AfterTextual(normalized,
                 Cmp("normalized", normalized, check_normalized(normalized, c)), c)

\* the raw path compared whether or not normalize_path succeeds
NormalizedOrRaw_raw(path, n) == SubSeq(path, 1, Min(Len(path), PATH_MAX - 1))

\* normalized[]: the normalized path, or the strncpy of the raw path when
\* normalize_path fails
NormalizedOrRaw(path, n) ==
    IF n = NULL THEN SubSeq(path, 1, Min(Len(path), PATH_MAX - 1)) ELSE n

\* c is the configuration ensure_initialized() has left
is_path_blocked(path, c) ==
    IF c.init_failed = 1 THEN [Ret(1) EXCEPT !.init = TRUE]
    ELSE IF path = NULL \/ c.blocked_paths_count = 0 THEN [Ret(0) EXCEPT !.init = TRUE]
    ELSE Called(CheckNormalized(NormalizedOrRaw(path, normalize_path(path, PATH_MAX)), c),
                IF CharAt(path, 0) # "/" THEN {Direct("normalize_path", "getcwd")} ELSE {})

\* the open directory descriptors: what readlink("/proc/self/fd/<dirfd>") yields,
\* NULL when it returns -1
FdPath(dirfd) == IF dirfd = 3 THEN PathOf(<<n_ws>>)
                 ELSE IF dirfd = 4 THEN Root
                 ELSE NULL

\* a concatenation into the buffer named what that must fit PATH_MAX, else
\* the answer is blocked
BlockedIfFits(full_path, what, c) ==
    IF Len(full_path) >= PATH_MAX THEN Event(1, what) ELSE is_path_blocked(full_path, c)

\* the descriptor-relative check allowing when the descriptor does not resolve
is_path_blocked_at_allow_unresolved(dirfd, path, c) ==
    IF path = NULL THEN Ret(0)
    ELSE IF CharAt(path, 0) = "/" THEN is_path_blocked(path, c)
    ELSE IF dirfd = AT_FDCWD THEN is_path_blocked(path, c)
    ELSE Called(IF "readlink" \notin rtld_next THEN Event(1, "nosym:readlink")
                ELSE IF FdPath(dirfd) = NULL THEN Event(0, "unresolved:dirfd")
                ELSE BlockedIfFits(FdPath(dirfd) \o <<"/">> \o path, "overflow:full_path", c),
                {Use("is_path_blocked_at", "readlink")})

is_path_blocked_at(dirfd, path, c) ==
    IF path = NULL THEN Ret(0)
    ELSE IF CharAt(path, 0) = "/" THEN is_path_blocked(path, c)
    ELSE IF dirfd = AT_FDCWD THEN is_path_blocked(path, c)
    ELSE Called(IF "readlink" \notin rtld_next THEN Event(1, "nosym:readlink")
                ELSE IF FdPath(dirfd) = NULL THEN Event(1, "unresolved:dirfd")
                ELSE BlockedIfFits(FdPath(dirfd) \o <<"/">> \o path, "overflow:full_path", c),
                {Use("is_path_blocked_at", "readlink")})

\* both checks of a hook that tests two paths with ||: the second runs only
\* when the first allows
Either(a, b) ==
    IF a.ret = 1 THEN a
    ELSE [ret |-> b.ret, trace |-> a.trace \o b.trace, init |-> a.init \/ b.init,
          events |-> a.events \cup b.events, calls |-> a.calls \cup b.calls]

\* the directory containing the symlink; last_slash is strrchr(linkpath_copy, '/')
LinkDir(linkpath, last_slash) ==
    IF last_slash = 0 THEN getcwd
    ELSE IF last_slash = 1 THEN Root
    ELSE SubSeq(linkpath, 1, last_slash - 1)

TargetFrom(linkdir, target, c) ==
    IF linkdir = NULL THEN Event(1, "unresolved:linkdir")
    ELSE BlockedIfFits(linkdir \o <<"/">> \o target, "overflow:full_target", c)

is_symlink_target_blocked(target, linkpath, c) ==
    IF target = NULL THEN Ret(0)
    ELSE IF CharAt(target, 0) = "/" THEN is_path_blocked(target, c)
    ELSE IF Len(linkpath) >= PATH_MAX THEN Event(1, "overflow:linkpath_copy")
    ELSE TargetFrom(LinkDir(linkpath, LastIndex(linkpath, "/")), target, c)

(***************************************************************************)
(* Inputs                                                                  *)
(***************************************************************************)
p_app == PathOf(<<n_app>>)
p_app_x == PathOf(<<n_app, n_x>>)
p_tmp == PathOf(<<n_tmp>>)
p_tmp_ok == PathOf(<<n_tmp, n_ok>>)
p_tmp_new == PathOf(<<n_tmp, n_new>>)
p_ws == PathOf(<<n_ws>>)
p_ws_d == PathOf(<<n_ws, n_d>>)
p_ws_l1 == PathOf(<<n_ws, n_l1>>)
p_l == PathOf(<<n_l>>)
p_ws_la == PathOf(<<n_ws, n_la>>)

\* values of SANDBOX_BLOCKED_PATHS: unset, "", "/app", "/tmp/: /ws/d ",
\* "/.apps_data:/ws/d::/l:/app", one token more than MAX_BLOCKED_PATHS, and
\* "app: /tmp /", a relative token and one with a space before its last separator
env_empty == <<>>
env_app == p_app
env_trim == p_tmp \o <<"/", ":", " ">> \o p_ws_d \o <<" ">>
env_many == PathOf(<<n_apps_data>>) \o <<":">> \o p_ws_d \o <<":", ":">> \o p_l
            \o <<":">> \o p_app
env_odd == n_app \o <<":", " ">> \o p_tmp \o <<" ", "/">>
EnvValues == {NULL, env_empty, env_app, env_trim, env_many, env_odd}
\* which of the loader's allocations fail
OomValues == {{}, {0}, {1}}

InitialDirs == {Root, p_app, PathOf(<<n_apps_data>>), p_tmp, p_ws, p_ws_d,
                PathOf(<<n_ws, n_app>>), LongDir}
InitialFiles == {p_app_x, p_tmp_ok}
InitialCwds == {p_ws, LongDir}
\* a symlink that is there before the process starts: /ws/la -> /app
InitialLinks == {<<p_ws_la, p_app>>}

\* paths given to open()
OpenPaths ==
    { NULL, <<>>, Root,
      p_app, p_app \o <<"/">>, p_app_x,
      PathOf(<<dot, n_app, dot, n_x>>),
      PathOf(<<n_tmp, dotdot, n_app, n_x>>),
      PathOf(<<n_applications, n_foo>>),
      PathOf(<<n_app, dotdot, n_tmp, n_ok>>),
      PathOf(<<n_apps_data, n_x>>),
      <<"/">> \o p_app_x,
      p_tmp_ok, p_tmp_new, p_tmp \o <<"/">>,
      PathOf(<<n_ws, n_d, n_x>>),
      PathOf(<<n_ws, n_l1, dotdot, n_app, n_x>>),
      PathOf(<<n_ws, n_l1, n_ok>>),
      PathOf(<<n_ws, n_l1, n_l>>),
      PathOf(<<n_ws, n_la, n_x>>),
      PathOf(<<n_ws, n_la, n_new>>),
      PathOf(<<n_app, n_new, n_x>>),
      PathOf(<<n_l, dotdot, n_app, n_x>>),
      PathOf(<<n_l, n_x>>),
      n_x, n_ok,
      Rel(<<dotdot, n_app, n_x>>),
      Rel(<<dotdot, dotdot, n_app, n_x>>) }
\* paths given to the other single-path hooks
FewPaths == {NULL, p_tmp_ok, p_tmp_new, p_app_x, n_x}
ChdirPaths == {p_tmp, p_ws, LongDir, p_app, dotdot}
DirFds == {AT_FDCWD, 3, 4, 9}
AtPaths == {NULL, n_x, Rel(<<n_app, n_x>>), p_tmp_ok, Rel(<<dotdot, n_app, n_x>>),
            Rel(<<n_long, n_ok>>)}
LinkTargets == {p_tmp, p_ws_d, p_app, Rel(<<dotdot, n_app, n_x>>), Rel(<<dotdot, n_tmp>>),
                Root}
LinkPaths == {p_ws_l1, p_l, PathOf(<<n_ws, n_la, n_k>>)}
\* arguments of symlinkat
AtLinkTargets == {p_tmp, Rel(<<dotdot, n_app, n_x>>), Rel(<<n_long, n_ok>>)}
LinkFds == {AT_FDCWD, 3, 9}
AtLinkPaths == {n_l1, p_l}
\* arguments of opendir, mkdir, rmdir, unlink and rename
DirPaths == {NULL, p_tmp, p_app}
MkdirPaths == {p_tmp_new, PathOf(<<n_app, n_new>>)}
RmdirPaths == {p_ws_d, PathOf(<<n_apps_data>>)}
UnlinkPaths == {p_tmp_ok, p_app_x, p_l}
RenameFrom == {p_l, p_tmp_ok, p_app_x}
RenameTo == {p_ws_l1, p_tmp_new}
\* the threads of the concurrent loading: the constructor's and two callers
Threads == {"ctor", "t1", "t2"}

(***************************************************************************)
(* The original implementations of the calls that change the filesystem    *)
(***************************************************************************)
Comps(p) == strtok_r(p, "/")
\* p is d or lies beneath d
Under(p, d) ==
    /\ Len(Comps(p)) >= Len(Comps(d))
    /\ SubSeq(Comps(p), 1, Len(Comps(d))) = Comps(d)
\* the name entry p has once old has been renamed to new
Moved(p, old, new) ==
    IF Under(p, old)
    THEN PathOf(Comps(new) \o SubSeq(Comps(p), Len(Comps(old)) + 1, Len(Comps(p))))
    ELSE p
Entries == dirs \cup files \cup {l[1] : l \in links}
IsEmptyDir(d) == d \in dirs /\ \A p \in Entries : Under(p, d) => p = d

\* the result of an original call that acts on the single location at:
\* done tells whether it acted, e is the errno when the location was found
\* and the call refused
Acted(at, done, e) ==
    [ret |-> IF done THEN "OK" ELSE "-1",
     errno |-> IF done THEN NoError ELSE IF at.ok THEN e ELSE at.errno,
     reached |-> IF at.ok THEN PathOf(at.loc) ELSE NULL]

MakeDir(at) == Acted(at, at.ok /\ ~Exists(PathOf(at.loc)), EEXIST)
orig_mkdir(pathname) == MakeDir(Resolve(pathname, cwd, TRUE, FALSE))

RemoveDir(at) ==
    Acted(at, at.ok /\ PathOf(at.loc) # Root /\ IsEmptyDir(PathOf(at.loc)),
          IF at.ok /\ PathOf(at.loc) \in dirs THEN ENOTEMPTY ELSE ENOTDIR)
orig_rmdir(pathname) == RemoveDir(Resolve(pathname, cwd, FALSE, FALSE))

Unlink(at) == Acted(at, at.ok /\ PathOf(at.loc) \notin dirs, EISDIR)
orig_unlink(pathname) == Unlink(Resolve(pathname, cwd, FALSE, FALSE))

\* rename(old, new): from and to are the two locations, neither final
\* symlink followed.  A directory replaces only an empty directory and does
\* not move beneath itself; anything else replaces only a non-directory.
CanRename(from, to) ==
    /\ from # Root
    /\ IF from \in dirs
       THEN /\ ~Under(to, from)
            /\ ~Exists(to) \/ IsEmptyDir(to)
       ELSE to \notin dirs
Rename(from, to) ==
    [ret |-> IF from.ok /\ to.ok /\ CanRename(PathOf(from.loc), PathOf(to.loc))
             THEN "OK" ELSE "-1",
     errno |-> IF ~from.ok THEN from.errno
               ELSE IF ~to.ok THEN to.errno
               ELSE IF CanRename(PathOf(from.loc), PathOf(to.loc)) THEN NoError
               ELSE EINVAL,
     reached |-> IF from.ok THEN PathOf(from.loc) ELSE NULL,
     reached2 |-> IF to.ok THEN PathOf(to.loc) ELSE NULL]
orig_rename(oldpath, newpath) ==
    Rename(Resolve(oldpath, cwd, FALSE, FALSE), Resolve(newpath, cwd, TRUE, FALSE))

(***************************************************************************)
(* The interposed hooks                                                    *)
(***************************************************************************)
\* the failure value of each hook's signature family
FailureValue(hook) ==
    IF hook \in {"fopen", "freopen", "opendir", "realpath"} THEN "NULL" ELSE "-1"

\* the decision of the oracle, in the current state, for path P
Decision(P) == is_path_blocked(P, ensure_initialized).ret = 1

\* path strings a second thread passes to a hook while the call is made
SharedPaths == {n_x, Rel(<<n_app, n_x>>), PathOf(<<n_ws, n_l1, n_ok>>), p_tmp_ok}

\* what a second thread sees in the current state: the policy a query works
\* with, the working directory and the filesystem, the decisions it gets
Host == <<cwd, dirs, files, links>>
Decisions == [P \in SharedPaths |-> Decision(P)]
Before == [policy |-> ensure_initialized, host |-> Host, decisions |-> Decisions]
NoBefore == [policy |-> NULL, host |-> NULL, decisions |-> NULL]

\* before: what a second thread saw when the call was entered
Idle == [hook |-> "none", path |-> NULL, path2 |-> NULL, dirfd |-> AT_FDCWD,
         checked |-> FALSE, blocked |-> FALSE, forwarded |-> FALSE,
         ret |-> "none", errno |-> NoError, reached |-> NULL, trace |-> <<>>,
         events |-> {}, before |-> NoBefore, calls |-> {}]

\* the directory a relative path of a call starts from, for the kernel
BaseDir(dirfd) == IF dirfd = AT_FDCWD THEN cwd
                  ELSE IF FdPath(dirfd) = NULL THEN NULL ELSE FdPath(dirfd)

\* r: the path resolved as it is; at: the location it names, there or not
KernelResult(r, at) ==
    [ret |-> IF r.ok THEN "OK" ELSE "-1",
     errno |-> r.errno,
     reached |-> IF at.ok THEN PathOf(at.loc) ELSE NULL]

\* what the original implementation does with one path: the location it
\* reaches and the result; follow: the final symlink is followed
Kernel(path, dirfd, follow) ==
    IF path # NULL /\ CharAt(path, 0) # "/" /\ BaseDir(dirfd) = NULL
    THEN KernelResult(Fail(EBADF), Fail(EBADF))
    ELSE KernelResult(Resolve(path, BaseDir(dirfd), FALSE, follow),
                      Resolve(path, BaseDir(dirfd), TRUE, follow))

\* the library functions init_blocked_paths calls, each by its public name
LoaderUses ==
    {Direct("init_blocked_paths", sym) :
        sym \in {"getenv", "strdup", "strtok_r", "strlen", "free", "fprintf"}}

\* the uses made in a hook whose check was o: those of the check and, when
\* this call is the one on which pthread_once runs the loader, the loader's
HookCalls(o) == o.calls \cup IF o.init /\ init_once = "INIT" THEN LoaderUses ELSE {}

\* the failure value returned with errno left as it was
Deny_without_errno(hook, path, dirfd, o) ==
    [Idle EXCEPT !.hook = hook, !.path = path, !.dirfd = dirfd, !.checked = TRUE,
                 !.blocked = TRUE, !.ret = FailureValue(hook), !.trace = o.trace,
                 !.events = o.events, !.before = Before,
                 !.calls = HookCalls(o)]

\* BLOCK_AND_RETURN(failure value): errno = EACCES
Deny(hook, path, dirfd, o) ==
    [Idle EXCEPT !.hook = hook, !.path = path, !.dirfd = dirfd, !.checked = TRUE,
                 !.blocked = TRUE, !.ret = FailureValue(hook), !.errno = EACCES,
                 !.trace = o.trace, !.events = o.events, !.before = Before,
                 !.calls = HookCalls(o)]

\* return orig(...): the original's result and errno, unchanged
Forward(hook, path, dirfd, o, k) ==
    [Idle EXCEPT !.hook = hook, !.path = path, !.dirfd = dirfd, !.checked = TRUE,
                 !.forwarded = TRUE,
                 !.ret = IF k.ret = "OK" THEN "OK" ELSE FailureValue(hook),
                 !.errno = k.errno, !.reached = k.reached, !.trace = o.trace,
                 !.events = o.events, !.before = Before,
                 !.calls = HookCalls(o) \cup {Use(hook, hook)}]

\* orig is a null pointer (dlsym found no next symbol) and is called: the
\* process ends with SIGSEGV
CallNull(hook, path, dirfd, o) ==
    [Idle EXCEPT !.hook = hook, !.path = path, !.dirfd = dirfd, !.checked = TRUE,
                 !.ret = "SIGSEGV", !.trace = o.trace, !.events = o.events,
                 !.before = Before, !.calls = HookCalls(o) \cup {Use(hook, hook)}]

\* the loader run again by every call, without the once control and without
\* the initialized test: the statics are rewritten after the first load
Publish_reloading(o, c) ==
    LET r == init_blocked_paths([c EXCEPT !.initialized = 0], paths_env, oom)
    IN /\ init_once' = IF o.init THEN "DONE" ELSE init_once
       /\ initialized' = IF o.init THEN r.initialized ELSE initialized
       /\ init_failed' = IF o.init THEN r.init_failed ELSE init_failed
       /\ blocked_paths' = IF o.init THEN r.blocked_paths ELSE blocked_paths
       /\ blocked_paths_count' = IF o.init THEN r.blocked_paths_count ELSE blocked_paths_count

\* the static state after a hook whose check was o: c is the configuration
\* ensure_initialized() leaves
Publish(o, c) ==
    /\ init_once' = IF o.init THEN "DONE" ELSE init_once
    /\ initialized' = IF o.init THEN c.initialized ELSE initialized
    /\ init_failed' = IF o.init THEN c.init_failed ELSE init_failed
    /\ blocked_paths' = IF o.init THEN c.blocked_paths ELSE blocked_paths
    /\ blocked_paths_count' = IF o.init THEN c.blocked_paths_count ELSE blocked_paths_count

\* the original call is made without the check having allowed it
Applied_unchecked(o, k) == k.ret = "OK"

\* the original call is made, after the check, and acts
Applied(o, k) == o.ret = 0 /\ k.ret = "OK"

\* a hook of the shape: if (is_path_blocked(path)) BLOCK_AND_RETURN; return orig(path)
PathHook(hook, path, follow) ==
    \E c \in {ensure_initialized} :
    \E o \in {is_path_blocked(path, c)} :
    \E k \in {Kernel(path, AT_FDCWD, follow)} :
        /\ pc' = "returned"
        /\ Publish(o, c)
        /\ last' = IF o.ret = 1 THEN Deny(hook, path, AT_FDCWD, o)
                   ELSE Forward(hook, path, AT_FDCWD, o, k)
        /\ UNCHANGED <<paths_env, oom, dirs, files, links, cwd, rtld_next, changes,
                       thread, loader, pending, freed>>

open ==
    /\ pc = "idle"
    /\ \E pathname \in OpenPaths : PathHook("open", pathname, TRUE)

fopen ==
    /\ pc = "idle"
    /\ \E pathname \in FewPaths : PathHook("fopen", pathname, TRUE)

opendir ==
    /\ pc = "idle"
    /\ \E name \in DirPaths : PathHook("opendir", name, TRUE)

\* the hook's own lookup of readlink can fail as the oracle's can
readlink ==
    /\ pc = "idle"
    /\ \E pathname \in FewPaths :
       \E c \in {ensure_initialized} :
       \E o \in {is_path_blocked(pathname, c)} :
       \E k \in {Kernel(pathname, AT_FDCWD, FALSE)} :
           /\ pc' = IF o.ret = 0 /\ "readlink" \notin rtld_next THEN "crashed"
                    ELSE "returned"
           /\ Publish(o, c)
           /\ last' = IF o.ret = 1 THEN Deny("readlink", pathname, AT_FDCWD, o)
                      ELSE IF "readlink" \notin rtld_next
                      THEN CallNull("readlink", pathname, AT_FDCWD, o)
                      ELSE Forward("readlink", pathname, AT_FDCWD, o, k)
           /\ UNCHANGED <<paths_env, oom, dirs, files, links, cwd, rtld_next, changes,
                          thread, loader, pending, freed>>

\* the original freopen with a null path: the stream keeps its file, no path is used
ReopenStream == [ret |-> "OK", errno |-> NoError, reached |-> NULL]

\* freopen tests the path only when it is not null
freopen ==
    /\ pc = "idle"
    /\ \E pathname \in FewPaths :
       \E c \in {ensure_initialized} :
       \E o \in {IF pathname # NULL THEN is_path_blocked(pathname, c) ELSE Ret(0)} :
       \E k \in {IF pathname # NULL THEN Kernel(pathname, AT_FDCWD, TRUE) ELSE ReopenStream} :
           /\ pc' = "returned"
           /\ Publish(o, c)
           /\ last' = IF o.ret = 1 THEN Deny("freopen", pathname, AT_FDCWD, o)
                      ELSE Forward("freopen", pathname, AT_FDCWD, o, k)
           /\ UNCHANGED <<paths_env, oom, dirs, files, links, cwd, rtld_next, changes,
                          thread, loader, pending, freed>>

openat ==
    /\ pc = "idle"
    /\ \E dirfd \in DirFds, pathname \in AtPaths :
       \E c \in {ensure_initialized} :
       \E o \in {is_path_blocked_at(dirfd, pathname, c)} :
       \E k \in {Kernel(pathname, dirfd, TRUE)} :
           /\ pc' = "returned"
           /\ Publish(o, c)
           /\ last' = IF o.ret = 1 THEN Deny("openat", pathname, dirfd, o)
                      ELSE Forward("openat", pathname, dirfd, o, k)
           /\ UNCHANGED <<paths_env, oom, dirs, files, links, cwd, rtld_next, changes,
                          thread, loader, pending, freed>>

chdir ==
    /\ pc = "idle"
    /\ \E path \in ChdirPaths :
       \E c \in {ensure_initialized} :
       \E o \in {is_path_blocked(path, c)} :
       \E k \in {Kernel(path, AT_FDCWD, TRUE)} :
           LET isdir == k.ret = "OK" /\ k.reached \in dirs
           IN /\ pc' = "returned"
              /\ Publish(o, c)
              /\ last' = IF o.ret = 1 THEN Deny("chdir", path, AT_FDCWD, o)
                         ELSE Forward("chdir", path, AT_FDCWD, o,
                                      IF k.ret = "OK" /\ ~isdir
                                      THEN [k EXCEPT !.ret = "-1", !.errno = ENOTDIR]
                                      ELSE k)
              /\ cwd' = IF o.ret = 0 /\ isdir THEN k.reached ELSE cwd
              /\ UNCHANGED <<paths_env, oom, dirs, files, links, rtld_next, changes,
                             thread, loader, pending, freed>>

mkdir ==
    /\ pc = "idle"
    /\ changes < MaxChanges
    /\ \E pathname \in MkdirPaths :
       \E c \in {ensure_initialized} :
       \E o \in {is_path_blocked(pathname, c)} :
       \E k \in {orig_mkdir(pathname)} :
           /\ pc' = "returned"
           /\ Publish(o, c)
           /\ last' = IF o.ret = 1 THEN Deny("mkdir", pathname, AT_FDCWD, o)
                      ELSE Forward("mkdir", pathname, AT_FDCWD, o, k)
           /\ dirs' = IF Applied(o, k) THEN dirs \cup {k.reached} ELSE dirs
           /\ changes' = changes + B(Applied(o, k))
           /\ UNCHANGED <<paths_env, oom, files, links, cwd, rtld_next, thread, loader, pending, freed>>

rmdir ==
    /\ pc = "idle"
    /\ changes < MaxChanges
    /\ \E pathname \in RmdirPaths :
       \E c \in {ensure_initialized} :
       \E o \in {is_path_blocked(pathname, c)} :
       \E k \in {orig_rmdir(pathname)} :
           /\ pc' = "returned"
           /\ Publish(o, c)
           /\ last' = IF o.ret = 1 THEN Deny("rmdir", pathname, AT_FDCWD, o)
                      ELSE Forward("rmdir", pathname, AT_FDCWD, o, k)
           /\ dirs' = IF Applied(o, k) THEN dirs \ {k.reached} ELSE dirs
           /\ changes' = changes + B(Applied(o, k))
           /\ UNCHANGED <<paths_env, oom, files, links, cwd, rtld_next, thread, loader, pending, freed>>

unlink ==
    /\ pc = "idle"
    /\ changes < MaxChanges
    /\ \E pathname \in UnlinkPaths :
       \E c \in {ensure_initialized} :
       \E o \in {is_path_blocked(pathname, c)} :
       \E k \in {orig_unlink(pathname)} :
           /\ pc' = "returned"
           /\ Publish(o, c)
           /\ last' = IF o.ret = 1 THEN Deny("unlink", pathname, AT_FDCWD, o)
                      ELSE Forward("unlink", pathname, AT_FDCWD, o, k)
           /\ files' = IF Applied(o, k) THEN files \ {k.reached} ELSE files
           /\ links' = IF Applied(o, k) THEN {l \in links : l[1] # k.reached} ELSE links
           /\ changes' = changes + B(Applied(o, k))
           /\ UNCHANGED <<paths_env, oom, dirs, cwd, rtld_next, thread, loader, pending, freed>>

\* the entries left when what stood at to has been replaced
Replaced(entries, to) == {p \in entries : ~Under(p, to)}

rename ==
    /\ pc = "idle"
    /\ changes < MaxChanges
    /\ \E oldpath \in RenameFrom, newpath \in RenameTo :
       \E c \in {ensure_initialized} :
       \E o \in {Either(is_path_blocked(oldpath, c), is_path_blocked(newpath, c))} :
       \E k \in {orig_rename(oldpath, newpath)} :
           /\ pc' = "returned"
           /\ Publish(o, c)
           /\ last' = IF o.ret = 1
                      THEN [Deny("rename", oldpath, AT_FDCWD, o) EXCEPT !.path2 = newpath]
                      ELSE [Forward("rename", oldpath, AT_FDCWD, o, k) EXCEPT !.path2 = newpath]
           /\ dirs' = IF Applied(o, k)
                      THEN {Moved(p, k.reached, k.reached2) : p \in Replaced(dirs, k.reached2)}
                      ELSE dirs
           /\ files' = IF Applied(o, k)
                       THEN {Moved(p, k.reached, k.reached2) : p \in Replaced(files, k.reached2)}
                       ELSE files
           /\ links' = IF Applied(o, k)
                       THEN {<<Moved(l[1], k.reached, k.reached2), l[2]>> :
                                 l \in {m \in links : ~Under(m[1], k.reached2)}}
                       ELSE links
           /\ cwd' = IF Applied(o, k) THEN Moved(cwd, k.reached, k.reached2) ELSE cwd
           /\ changes' = changes + B(Applied(o, k))
           /\ UNCHANGED <<paths_env, oom, rtld_next, thread, loader, pending, freed>>

\* what the original symlink does: the link is made where linkpath leads,
\* unless something is there
MakeLink(at, made) ==
    [ret |-> IF made THEN "OK" ELSE "-1",
     errno |-> IF made THEN NoError ELSE IF at.ok THEN EEXIST ELSE at.errno,
     reached |-> IF at.ok THEN PathOf(at.loc) ELSE NULL]
LinkAt(at) == MakeLink(at, at.ok /\ ~Exists(PathOf(at.loc)))
orig_symlink(linkpath) == LinkAt(Resolve(linkpath, cwd, TRUE, FALSE))

symlink ==
    /\ pc = "idle"
    /\ Cardinality(links) < Cardinality(InitialLinks) + MaxLinks
    /\ changes < MaxChanges
    /\ \E target \in LinkTargets, linkpath \in LinkPaths :
       \E c \in {ensure_initialized} :
       \E o \in {Either(is_path_blocked(linkpath, c),
                        is_symlink_target_blocked(target, linkpath, c))} :
       \E k \in {orig_symlink(linkpath)} :
           /\ pc' = "returned"
           /\ Publish(o, c)
           /\ last' = IF o.ret = 1
                      THEN [Deny("symlink", linkpath, AT_FDCWD, o) EXCEPT !.path2 = target]
                      ELSE [Forward("symlink", linkpath, AT_FDCWD, o, k) EXCEPT !.path2 = target]
           /\ links' = IF Applied(o, k) THEN links \cup {<<k.reached, target>>}
                       ELSE links
           /\ changes' = changes + B(Applied(o, k))
           /\ UNCHANGED <<paths_env, oom, dirs, files, cwd, rtld_next, thread, loader, pending, freed>>

\* full_linkpath built, the target is checked from it; not built, the check
\* is skipped
FromFullLinkpath(target, full_linkpath, c) ==
    IF Len(full_linkpath) < PATH_MAX
    THEN is_symlink_target_blocked(target, full_linkpath, c)
    ELSE Event(0, "overflow:full_linkpath")

\* the branch of symlinkat for a relative target and a relative linkpath with
\* a descriptor other than AT_FDCWD
TargetFromFd(target, newdirfd, linkpath, c) ==
    Called(IF "readlink" \notin rtld_next THEN Event(1, "nosym:readlink")
           ELSE IF FdPath(newdirfd) = NULL THEN Event(1, "unresolved:dirfd")
           ELSE IF linkpath = NULL THEN Ret(0)
           ELSE FromFullLinkpath(target, FdPath(newdirfd) \o <<"/">> \o linkpath, c),
           {Use("symlinkat", "readlink")})

\* the branch of symlinkat for a relative target
RelativeTarget(target, newdirfd, linkpath, c) ==
    IF linkpath # NULL /\ CharAt(linkpath, 0) = "/"
    THEN FromFullLinkpath(target, linkpath, c)
    ELSE IF newdirfd = AT_FDCWD
    THEN IF getcwd # NULL /\ linkpath # NULL
         THEN FromFullLinkpath(target, getcwd \o <<"/">> \o linkpath, c)
         ELSE Ret(0)
    ELSE TargetFromFd(target, newdirfd, linkpath, c)

\* the checks of symlinkat that follow is_path_blocked_at(newdirfd, linkpath)
symlinkat_target(target, newdirfd, linkpath, c) ==
    IF target = NULL THEN Ret(0)
    ELSE IF CharAt(target, 0) = "/" THEN is_path_blocked(target, c)
    ELSE RelativeTarget(target, newdirfd, linkpath, c)

orig_symlinkat(newdirfd, linkpath) ==
    IF linkpath # NULL /\ CharAt(linkpath, 0) # "/" /\ BaseDir(newdirfd) = NULL
    THEN MakeLink(Fail(EBADF), FALSE)
    ELSE LinkAt(Resolve(linkpath, BaseDir(newdirfd), TRUE, FALSE))

symlinkat ==
    /\ pc = "idle"
    /\ Cardinality(links) < Cardinality(InitialLinks) + MaxLinks
    /\ changes < MaxChanges
    /\ \E target \in AtLinkTargets, newdirfd \in LinkFds, linkpath \in AtLinkPaths :
       \E c \in {ensure_initialized} :
       \E o \in {Either(is_path_blocked_at(newdirfd, linkpath, c),
                        symlinkat_target(target, newdirfd, linkpath, c))} :
       \E k \in {orig_symlinkat(newdirfd, linkpath)} :
           /\ pc' = "returned"
           /\ Publish(o, c)
           /\ last' = IF o.ret = 1
                      THEN [Deny("symlinkat", linkpath, newdirfd, o) EXCEPT !.path2 = target]
                      ELSE [Forward("symlinkat", linkpath, newdirfd, o, k) EXCEPT !.path2 = target]
           /\ links' = IF Applied(o, k) THEN links \cup {<<k.reached, target>>}
                       ELSE links
           /\ changes' = changes + B(Applied(o, k))
           /\ UNCHANGED <<paths_env, oom, dirs, files, cwd, rtld_next, thread, loader, pending, freed>>

\* realpath calls the original first and tests its result
realpath ==
    /\ pc = "idle"
    /\ "realpath" \in rtld_next
    /\ \E path \in FewPaths :
       \E c \in {ensure_initialized} :
       \E k \in {Kernel(path, AT_FDCWD, TRUE)} :
       \E result \in {IF path = NULL THEN NULL ELSE orig_realpath(path)} :
       \E o \in {IF result # NULL THEN is_path_blocked(result, c) ELSE Ret(0)} :
           /\ pc' = "returned"
           /\ Publish(o, c)
           /\ last' = IF o.ret = 1
                      THEN [Deny("realpath", path, AT_FDCWD, o) EXCEPT
                                !.forwarded = TRUE, !.reached = k.reached,
                                !.calls = @ \cup {Use("realpath", "realpath")}]
                      ELSE Forward("realpath", path, AT_FDCWD, o,
                                   [k EXCEPT !.ret = IF result # NULL THEN "OK" ELSE "-1",
                                             !.errno = IF result # NULL THEN NoError
                                                       ELSE IF path = NULL THEN EINVAL
                                                       ELSE IF k.errno = NoError THEN ENAMETOOLONG
                                                       ELSE k.errno])
           /\ UNCHANGED <<paths_env, oom, dirs, files, links, cwd, rtld_next, changes,
                          thread, loader, pending, freed>>

\* realpath when dlsym finds no next realpath: the null orig is called
realpath_null ==
    /\ pc = "idle"
    /\ "realpath" \notin rtld_next
    /\ \E path \in FewPaths :
           /\ pc' = "crashed"
           /\ last' = [CallNull("realpath", path, AT_FDCWD, Ret(0)) EXCEPT !.checked = FALSE]
           /\ UNCHANGED <<paths_env, oom, init_once, initialized, init_failed, blocked_paths,
                          blocked_paths_count, dirs, files, links, cwd, rtld_next, changes,
                          thread, loader, pending, freed>>

\* the library constructor
sandbox_init ==
    /\ pc = "idle"
    /\ init_once = "INIT"
    /\ \E c \in {ensure_initialized} : Publish([Ret(0) EXCEPT !.init = TRUE], c)
    /\ UNCHANGED <<paths_env, oom, dirs, files, links, cwd, rtld_next, changes, pc, last,
                   thread, loader, pending, freed>>

\* the caller goes on to its next call
Return ==
    /\ pc = "returned"
    /\ pc' = "idle"
    /\ last' = Idle
    /\ UNCHANGED <<paths_env, oom, init_once, initialized, init_failed, blocked_paths,
                   blocked_paths_count, dirs, files, links, cwd, rtld_next, changes,
                   thread, loader, pending, freed>>

\* no call of a second thread is between its check and its original
NoPending == [stage |-> "none", path |-> NULL, ret |-> 0, checked_at |-> NULL,
              reached |-> NULL]

\* no thread of the concurrent loading is modelled here
NoThreads == [t \in Threads |-> "absent"]
\* a thread's locals in init_blocked_paths: where it is, the tokens strtok_r
\* has still to return, the number of the next strdup(token)
NoLocal == [at |-> "none", tokens |-> <<>>, attempt |-> 1]
\* runs: how many times the body of init_blocked_paths has been entered
NoLoader == [runs |-> 0, local |-> [t \in Threads |-> NoLocal]]

Init ==
    /\ \/ /\ rtld_next = NextSymbols
          /\ paths_env \in EnvValues
          /\ oom \in OomValues
       \/ /\ rtld_next \in {NextSymbols \ {sym} : sym \in NextSymbols}
          /\ paths_env = NULL
          /\ oom = {}
    /\ init_once = "INIT"
    /\ initialized = 0
    /\ init_failed = 0
    /\ blocked_paths = <<>>
    /\ blocked_paths_count = 0
    /\ dirs = InitialDirs
    /\ files = InitialFiles
    /\ links = InitialLinks
    /\ cwd \in InitialCwds
    /\ changes = 0
    /\ pc = "idle"
    /\ last = Idle
    /\ thread = NoThreads
    /\ loader = NoLoader
    /\ pending = NoPending
    /\ freed = FALSE

Next ==
    \/ sandbox_init
    \/ open
    \/ fopen
    \/ freopen
    \/ opendir
    \/ readlink
    \/ openat
    \/ chdir
    \/ mkdir
    \/ rmdir
    \/ unlink
    \/ rename
    \/ symlink
    \/ symlinkat
    \/ realpath
    \/ realpath_null
    \/ Return

Spec == Init /\ [][Next]_vars

(***************************************************************************)
(* Concurrent loading: the constructor and the first callers race for      *)
(* pthread_once(&init_once, init_blocked_paths); the loader runs a line    *)
(* at a time                                                               *)
(***************************************************************************)
\* the once control lets every caller in until the routine has returned
OnceMayEnter_unguarded(once) == once # "DONE"

\* pthread_once: the caller that finds the control untouched runs the routine
OnceMayEnter(once) == once = "INIT"

Local(t) == loader.local[t]
SetLocal(t, l) == [loader EXCEPT !.local[t] = l]

\* a thread calls ensure_initialized() and is the one to run the routine
OnceEnter(t) ==
    /\ thread[t] = "start"
    /\ OnceMayEnter(init_once)
    /\ init_once' = "IN_PROGRESS"
    /\ thread' = [thread EXCEPT ![t] = "loading"]
    /\ loader' = [loader EXCEPT !.runs = loader.runs + 1,
                                !.local[t] = [NoLocal EXCEPT !.at = "begin"]]
    /\ UNCHANGED <<paths_env, oom, initialized, init_failed, blocked_paths,
                   blocked_paths_count, dirs, files, links, cwd, rtld_next, changes, pc, last,
                   pending, freed>>

\* if (initialized) return; ... strdup(paths), failing or not; the first strtok_r
LoadBegin(t) ==
    /\ thread[t] = "loading"
    /\ Local(t).at = "begin"
    /\ init_failed' = IF initialized = 0 /\ 0 \in oom THEN 1 ELSE init_failed
    /\ loader' = SetLocal(t, IF initialized = 1 \/ 0 \in oom
                             THEN [Local(t) EXCEPT !.at = "return"]
                             ELSE [Local(t) EXCEPT !.at = "loop", !.tokens = EnvTokensOf(paths_env)])
    /\ UNCHANGED <<paths_env, oom, init_once, initialized, blocked_paths,
                   blocked_paths_count, dirs, files, links, cwd, rtld_next, changes, pc, last,
                   thread, pending, freed>>

\* one round of the while loop: the token is trimmed and, when it is not
\* empty and its strdup succeeds, stored
LoadToken(t) ==
    /\ thread[t] = "loading"
    /\ Local(t).at = "loop"
    /\ Local(t).tokens # <<>>
    /\ blocked_paths_count < MAX_BLOCKED_PATHS
    /\ \E token \in {TrimToken(Head(Local(t).tokens))} :
       \E stored \in {Len(token) > 0 /\ Local(t).attempt \notin oom} :
           /\ blocked_paths' = IF stored
                               THEN SubSeq(blocked_paths, 1, blocked_paths_count) \o <<token>>
                               ELSE blocked_paths
           /\ blocked_paths_count' = blocked_paths_count + B(stored)
           /\ loader' = SetLocal(t, [Local(t) EXCEPT !.tokens = Tail(Local(t).tokens),
                                                     !.attempt = @ + B(Len(token) > 0)])
    /\ UNCHANGED <<paths_env, oom, init_once, initialized, init_failed, dirs, files, links,
                   cwd, rtld_next, changes, pc, last, thread, pending, freed>>

\* the loop ends: free(paths_copy); initialized = 1
LoadEnd(t) ==
    /\ thread[t] = "loading"
    /\ Local(t).at = "loop"
    /\ Local(t).tokens = <<>> \/ blocked_paths_count >= MAX_BLOCKED_PATHS
    /\ initialized' = 1
    /\ loader' = SetLocal(t, [Local(t) EXCEPT !.at = "return"])
    /\ UNCHANGED <<paths_env, oom, init_once, init_failed, blocked_paths,
                   blocked_paths_count, dirs, files, links, cwd, rtld_next, changes, pc, last,
                   thread, pending, freed>>

\* the routine returns: pthread_once marks the control done and returns
OnceDone(t) ==
    /\ thread[t] = "loading"
    /\ Local(t).at = "return"
    /\ init_once' = "DONE"
    /\ thread' = [thread EXCEPT ![t] = IF t = "ctor" THEN "done" ELSE "check"]
    /\ loader' = SetLocal(t, NoLocal)
    /\ UNCHANGED <<paths_env, oom, initialized, init_failed, blocked_paths,
                   blocked_paths_count, dirs, files, links, cwd, rtld_next, changes, pc, last,
                   pending, freed>>

\* pthread_once returns at once for a caller that finds the control done; a
\* caller that finds the routine running waits at "start"
OncePass(t) ==
    /\ thread[t] = "start"
    /\ init_once = "DONE"
    /\ thread' = [thread EXCEPT ![t] = IF t = "ctor" THEN "done" ELSE "check"]
    /\ UNCHANGED <<paths_env, oom, init_once, initialized, init_failed, blocked_paths,
                   blocked_paths_count, dirs, files, links, cwd, rtld_next, changes, pc, last,
                   loader, pending, freed>>

\* is_path_blocked after ensure_initialized(): the caller reads init_failed,
\* blocked_paths_count and the list; last keeps what it read
ReadPolicy(t) ==
    /\ thread[t] = "check"
    /\ thread' = [thread EXCEPT ![t] = "done"]
    /\ last' = [Idle EXCEPT !.hook = t, !.checked = TRUE,
                            !.blocked = (init_failed = 1),
                            !.trace = SubSeq(blocked_paths, 1, blocked_paths_count)]
    /\ UNCHANGED <<paths_env, oom, init_once, initialized, init_failed, blocked_paths,
                   blocked_paths_count, dirs, files, links, cwd, rtld_next, changes, pc,
                   loader, pending, freed>>

InitOnce ==
    /\ paths_env \in EnvValues
    /\ oom \in OomValues
    /\ init_once = "INIT"
    /\ initialized = 0
    /\ init_failed = 0
    /\ blocked_paths = <<>>
    /\ blocked_paths_count = 0
    /\ dirs = InitialDirs
    /\ files = InitialFiles
    /\ links = InitialLinks
    /\ cwd = p_ws
    /\ rtld_next = NextSymbols
    /\ changes = 0
    /\ pc = "idle"
    /\ last = Idle
    /\ thread = [t \in Threads |-> "start"]
    /\ loader = NoLoader
    /\ pending = NoPending
    /\ freed = FALSE

NextOnce ==
    \E t \in Threads :
        \/ OnceEnter(t)
        \/ LoadBegin(t)
        \/ LoadToken(t)
        \/ LoadEnd(t)
        \/ OnceDone(t)
        \/ OncePass(t)
        \/ ReadPolicy(t)

SpecOnce == InitOnce /\ [][NextOnce]_vars

(***************************************************************************)
(* A second thread's open() a line at a time, among the first thread's     *)
(* calls: nothing in the library holds a lock from the check to the call   *)
(***************************************************************************)
\* paths the second thread opens
RacePaths == {Rel(<<n_app, n_x>>), n_x, p_tmp_ok, PathOf(<<n_ws, n_l1, n_ok>>)}

\* if (is_path_blocked(pathname)) BLOCK_AND_RETURN(-1);
\* checked_at: the location the path names when the check is made
race_check ==
    /\ pending.stage = "none"
    /\ \E pathname \in RacePaths :
       \E c \in {ensure_initialized} :
       \E o \in {is_path_blocked(pathname, c)} :
       \E k \in {Kernel(pathname, AT_FDCWD, TRUE)} :
           /\ Publish(o, c)
           /\ pending' = [stage |-> IF o.ret = 1 THEN "denied" ELSE "checked",
                          path |-> pathname, ret |-> o.ret, checked_at |-> k.reached,
                          reached |-> NULL]
    /\ UNCHANGED <<paths_env, oom, dirs, files, links, cwd, rtld_next, changes, pc, last,
                   thread, loader, freed>>

\* orig = dlsym(RTLD_NEXT, "open"); return orig(pathname, flags): the kernel
\* resolves the path in the directory and the filesystem as they are now
race_forward ==
    /\ pending.stage = "checked"
    /\ \E k \in {Kernel(pending.path, AT_FDCWD, TRUE)} :
           pending' = [pending EXCEPT !.stage = "forwarded", !.reached = k.reached]
    /\ UNCHANGED <<paths_env, oom, init_once, initialized, init_failed, blocked_paths,
                   blocked_paths_count, dirs, files, links, cwd, rtld_next, changes, pc,
                   last, thread, loader, freed>>

NextRace ==
    \/ sandbox_init
    \/ race_check
    \/ race_forward
    \/ chdir
    \/ rmdir
    \/ rename
    \/ symlink
    \/ Return

SpecRace == Init /\ [][NextRace]_vars

(***************************************************************************)
(* Unloading: the destructor, and the hooks called after it                *)
(***************************************************************************)
\* the entries of blocked_paths that have not been passed to free()
LiveEntries == IF freed THEN 0 ELSE blocked_paths_count

\* sandbox_cleanup: free(blocked_paths[i]) for every i below the count; the
\* pointers and blocked_paths_count are left as they are
sandbox_cleanup ==
    /\ pc = "idle"
    /\ init_once = "DONE"
    /\ ~freed
    /\ freed' = TRUE
    /\ UNCHANGED <<paths_env, oom, init_once, initialized, init_failed, blocked_paths,
                   blocked_paths_count, dirs, files, links, cwd, rtld_next, changes, pc,
                   last, thread, loader, pending>>

\* open() while the entries are live
open_before_cleanup == ~freed /\ open

\* is_path_blocked once the entries are freed: strlen and strncmp read the
\* freed blocked_paths[i], which is undefined; the check answers either way
\* or the process ends
FreedRead == {Event(1, "read:freed"), Event(0, "read:freed"), Event(2, "read:freed")}

is_path_blocked_after_cleanup(path, c) ==
    IF c.init_failed = 1 THEN {[Ret(1) EXCEPT !.init = TRUE]}
    ELSE IF path = NULL \/ c.blocked_paths_count = 0 THEN {[Ret(0) EXCEPT !.init = TRUE]}
    ELSE {[o EXCEPT !.init = TRUE] : o \in FreedRead}

\* open() called after sandbox_cleanup, by a thread still running or by a
\* later exit handler
open_after_cleanup ==
    /\ pc = "idle"
    /\ freed
    /\ \E pathname \in FewPaths :
       \E c \in {ensure_initialized} :
       \E o \in is_path_blocked_after_cleanup(pathname, c) :
       \E k \in {Kernel(pathname, AT_FDCWD, TRUE)} :
           /\ pc' = IF o.ret = 2 THEN "crashed" ELSE "returned"
           /\ Publish(o, c)
           /\ last' = IF o.ret = 1 THEN Deny("open", pathname, AT_FDCWD, o)
                      ELSE IF o.ret = 2
                      THEN [Deny("open", pathname, AT_FDCWD, o) EXCEPT
                                !.blocked = FALSE, !.ret = "SIGSEGV", !.errno = NoError]
                      ELSE Forward("open", pathname, AT_FDCWD, o, k)
    /\ UNCHANGED <<paths_env, oom, dirs, files, links, cwd, rtld_next, changes, thread,
                   loader, pending, freed>>

NextExit ==
    \/ sandbox_init
    \/ open_before_cleanup
    \/ sandbox_cleanup
    \/ open_after_cleanup
    \/ Return

SpecExit == Init /\ [][NextExit]_vars

(***************************************************************************)
(* Notions of the specification the claims are stated with                 *)
(***************************************************************************)
\* the rule of the specification: C == P, or C begins with P followed by "/"
Matches(C, P) ==
    \/ C = P
    \/ /\ Len(C) > Len(P)
       /\ SubSeq(C, 1, Len(P)) = P
       /\ C[Len(P) + 1] = "/"

\* loc is equal to or beneath a prefix of the loaded list
Forbidden(loc) ==
    /\ loc # NULL
    /\ \E i \in 1..blocked_paths_count : Matches(loc, blocked_paths[i])

\* the configuration has been loaded and is not fail-closed
LoadedOpen == init_once = "DONE" /\ initialized = 1 /\ init_failed = 0

\* the last call was the plain query is_path_blocked(path), made by open()
PlainQuery == pc = "returned" /\ last.hook = "open"
\* the last call was the query is_path_blocked_at(dirfd, path), made by openat()
AtQuery == pc = "returned" /\ last.hook = "openat"

\* the location the kernel reaches for the path of the last call
KernelLoc == Kernel(last.path, last.dirfd, TRUE).reached

\* the entries a load without any allocation failure stores for the environment
ConfiguredList ==
    ParseTokens(strtok_r(IF paths_env # NULL THEN paths_env ELSE DEFAULT_BLOCKED_PATHS, ":"),
                <<>>, 1, {})

(***************************************************************************)
(* C1                                                                      *)
(***************************************************************************)
\* C1: with the configuration loaded and a non-empty prefix list, no hook
\* forwards a call when the location the kernel reaches for the caller's path
\* is equal to or beneath a forbidden prefix.  (realpath, which is written to
\* call the original before it tests the result, is left out: the statement
\* fails without it.)
C1_NoForwardBeneathPrefix ==
    (LoadedOpen /\ blocked_paths_count > 0 /\ last.forwarded /\ last.hook # "realpath")
        => ~Forbidden(last.reached)

(***************************************************************************)
(* C2                                                                      *)
(***************************************************************************)
\* C2: when init_failed is set, every admission query answers blocked, for
\* is_path_blocked(path) and for is_path_blocked_at(dirfd, path) with every
\* dirfd, a null path included.
C2_FailClosedBlocksEveryQuery ==
    (init_failed = 1 /\ (PlainQuery \/ AtQuery)) => last.blocked

(***************************************************************************)
(* C3                                                                      *)
(***************************************************************************)
\* C3: once an allocation failure of the load has set init_failed, every call
\* of every hook, whatever its arguments, returns the hook's failure value
\* with errno = EACCES.  (Stated for the calls that are given a path.)
C3_FailClosedHooksDeny ==
    (init_failed = 1 /\ 0 \in oom /\ pc = "returned" /\ last.path # NULL)
        => (last.ret = FailureValue(last.hook) /\ last.errno = EACCES)

(***************************************************************************)
(* C4                                                                      *)
(***************************************************************************)
\* C4: a query is never answered allowed from a list that lacks a configured
\* non-empty token within the cap: an allocation failure during the load, of
\* the working copy or of a token's stored copy, ends fail-closed.
C4_NoAllowFromPartialList ==
    ((PlainQuery \/ AtQuery) /\ init_once = "DONE" /\ ~last.blocked)
        => \A i \in 1..Len(ConfiguredList) :
               \E j \in 1..blocked_paths_count : blocked_paths[j] = ConfiguredList[i]

(***************************************************************************)
(* C5                                                                      *)
(***************************************************************************)
\* some prefix of the loaded list matches C by the rule of the specification
SomePrefixMatches(C) == \E i \in 1..blocked_paths_count : Matches(C, blocked_paths[i])

\* the paths the specification lists as blocked by the prefix /app
AppExamples ==
    { p_app, p_app \o <<"/">>, p_app_x,
      PathOf(<<dot, n_app, dot, n_x>>),
      PathOf(<<n_tmp, dotdot, n_app, n_x>>) }

\* C5: at each place a candidate C is compared with the stored prefixes (the
\* textual check, the resolved path, the parent-reconstructed path, the
\* resolved cwd) the comparison succeeds iff C equals a prefix P or begins
\* with P followed by "/".  With the list </app>, the oracle blocks /app,
\* /app/, /app/x, /./app/./x and /tmp/../app/x, and /applications/foo is not
\* matched.
C5_MatchRule ==
    /\ \A k \in 1..Len(last.trace) :
           /\ last.trace[k][1] \in {"normalized", "resolved", "parent", "cwd"}
           /\ last.trace[k][3] <=> SomePrefixMatches(last.trace[k][2])
    /\ (PlainQuery /\ LoadedOpen /\ blocked_paths = <<p_app>>)
           => /\ last.path \in AppExamples => last.blocked
              /\ last.path = PathOf(<<n_applications, n_foo>>)
                     => /\ ~last.blocked
                        /\ last.trace = <<<<"normalized", last.path, FALSE>>>>

\* C5 witness: a call whose textual comparison failed and whose
\* parent-reconstructed path matched a prefix
C5_ParentPlaceMatched ==
    /\ PlainQuery
    /\ Len(last.trace) = 2
    /\ last.trace[1][1] = "normalized" /\ ~last.trace[1][3]
    /\ last.trace[2][1] = "parent" /\ last.trace[2][3]
    /\ last.blocked

(***************************************************************************)
(* C6                                                                      *)
(***************************************************************************)
\* the candidate the oracle compares for the path of the last call: its textual
\* canonicalization, or the path itself cut to PATH_MAX - 1 when that fails
Canonical == NormalizedOrRaw(last.path, normalize_path(last.path, PATH_MAX))

\* C6 as stated: whenever the input path P equals a prefix Q of the list or
\* begins with Q followed by the separator, the oracle called on P answers
\* blocked (configuration loaded, not fail-closed).
C6_InputUnderPrefixBlocked ==
    (PlainQuery /\ LoadedOpen /\ last.path # NULL /\ SomePrefixMatches(last.path))
        => last.blocked

\* C6 amended: whenever the textual canonicalization of the input path (the
\* path itself when canonicalization fails) equals a prefix Q of the list or
\* begins with Q followed by the separator, the oracle answers blocked.
C6_CanonicalUnderPrefixBlocked ==
    (PlainQuery /\ LoadedOpen /\ last.path # NULL /\ SomePrefixMatches(Canonical))
        => last.blocked

\* C6 witness: a blocked path that matches only after canonicalization
C6_BlockedAfterCanonicalization ==
    /\ PlainQuery /\ LoadedOpen /\ last.path # NULL
    /\ ~SomePrefixMatches(last.path)
    /\ SomePrefixMatches(Canonical)
    /\ last.blocked

(***************************************************************************)
(* C7                                                                      *)
(***************************************************************************)
\* C7 as stated: when no prefix matches the input path P by the rule and the
\* kernel does not resolve P to a location equal to or beneath a prefix, the
\* oracle answers allowed; in particular a path whose ".." collapsing lands
\* under a prefix while the kernel resolves it to a location outside every
\* prefix is allowed.  (Stated for the paths the kernel does resolve.)
C7_UnmatchedInputAllowed ==
    (PlainQuery /\ LoadedOpen /\ last.path # NULL
        /\ ~SomePrefixMatches(last.path)
        /\ KernelLoc # NULL /\ ~Forbidden(KernelLoc))
        => ~last.blocked

\* C7 amended: when no prefix matches the textual canonicalization N of the
\* input path and the kernel does not resolve N to a location equal to or
\* beneath a prefix, the oracle answers allowed.
C7_UnmatchedCanonicalAllowed ==
    (PlainQuery /\ LoadedOpen /\ last.path # NULL
        /\ ~SomePrefixMatches(Canonical)
        /\ ~Forbidden(Kernel(Canonical, AT_FDCWD, TRUE).reached))
        => ~last.blocked

\* C7 witness: an allowed path through a symlink, with a non-empty list
C7_AllowedThroughSymlink ==
    /\ PlainQuery /\ LoadedOpen /\ blocked_paths_count > 0
    /\ last.path = PathOf(<<n_ws, n_l1, n_ok>>)
    /\ ~SomePrefixMatches(Canonical)
    /\ ~Forbidden(Kernel(Canonical, AT_FDCWD, TRUE).reached)
    /\ ~last.blocked /\ last.forwarded
    /\ last.ret = "OK" /\ last.reached = p_tmp_ok

(***************************************************************************)
(* C8                                                                      *)
(***************************************************************************)
\* paths given to normalize_path: those given to open(), and some with
\* repeated and trailing separators and with ".." above the root
NormalizeInputs ==
    (OpenPaths \ {NULL}) \cup
    { PathOf(<<dotdot>>), <<"/", "/", "/">>, dot, dotdot,
      PathOf(<<n_tmp>>) \o <<"/", "/">> \o n_ok \o <<"/">>,
      Rel(<<n_d, dot, dotdot, dotdot, dotdot, dotdot, n_ws>>) \o <<"/", "/">>,
      PathOf(<<n_ws, n_l1, dotdot, dot>>) \o <<"/">> }

\* the component of N that starts after the separator at position i
ComponentAfter(N, i) ==
    SubSeq(N, i + 1, i + FirstIndex(SubSeq(N, i + 1, Len(N)), "/") - 1)

\* N is absolute, has no ".", ".." or empty component and no trailing
\* separator, or is "/"
WellFormed(N) ==
    \/ N = Root
    \/ /\ Len(N) > 1
       /\ N[1] = "/"
       /\ N[Len(N)] # "/"
       /\ \A i \in 1..Len(N) :
              N[i] = "/" => ComponentAfter(N, i) \notin {<<>>, dot, dotdot}

\* C8: for every path P on which normalize_path succeeds, normalize_path
\* applied to its output succeeds and returns the same string; the output is
\* absolute, has no ".", ".." or empty component and no trailing separator,
\* and is "/" when no component remains.
C8_NormalizeIdempotent ==
    \A P \in NormalizeInputs :
        \A N \in {normalize_path(P, PATH_MAX)} :
            N # NULL => /\ normalize_path(N, PATH_MAX) = N
                        /\ WellFormed(N)

\* C8 witness: after chdir("..") from /ws, the relative path "../app/x" is
\* given to open(): its components are popped at the root, the candidate
\* compared is /app/x
C8_RelativeNormalized ==
    /\ PlainQuery
    /\ cwd = Root
    /\ last.path = Rel(<<dotdot, n_app, n_x>>)
    /\ Len(last.trace) > 0
    /\ last.trace[1] = <<"normalized", normalize_path(last.path, PATH_MAX), TRUE>>
    /\ normalize_path(last.path, PATH_MAX) = p_app_x
    /\ normalize_path(dotdot, PATH_MAX) = Root

(***************************************************************************)
(* C9                                                                      *)
(***************************************************************************)
\* C9: when the path P' of a call canonicalizes textually to the string N,
\* the oracle's decision for P' is its decision for N (P' is N with "." and
\* ".." components inserted) and for every path P that canonicalizes to N, in
\* the same filesystem state and with the same current working directory.
C9_InsertionsKeepDecision ==
    (PlainQuery /\ last.path # NULL)
        => \A N \in {normalize_path(last.path, PATH_MAX)} :
               N # NULL =>
                   \A P \in (OpenPaths \ {NULL}) \cup {N} :
                       normalize_path(P, PATH_MAX) = N => (last.blocked <=> Decision(P))

\* C9 witness: /app/../tmp/ok, which is /tmp/ok with "app" and ".." inserted,
\* is allowed as /tmp/ok is, with /app in the list
C9_InsertedDotDotAllowed ==
    /\ PlainQuery /\ LoadedOpen
    /\ \E i \in 1..blocked_paths_count : blocked_paths[i] = p_app
    /\ last.path = PathOf(<<n_app, dotdot, n_tmp, n_ok>>)
    /\ normalize_path(last.path, PATH_MAX) = p_tmp_ok
    /\ ~last.blocked /\ ~Decision(p_tmp_ok)

(***************************************************************************)
(* C10                                                                     *)
(***************************************************************************)
\* C10 as stated: with SANDBOX_BLOCKED_PATHS set to the empty string the
\* loaded list is empty and the oracle answers allowed for every input:
\* every path, and for is_path_blocked_at every dirfd (valid, invalid or
\* closed) and every relative or absolute path.  (Stated for loads without
\* allocation failure.)
C10_EmptyEnvAllowsAll ==
    (paths_env = env_empty /\ 0 \notin oom /\ (PlainQuery \/ AtQuery))
        => /\ init_once = "DONE" => blocked_paths_count = 0
           /\ ~last.blocked

\* is_path_blocked_at cannot build the path: the descriptor does not resolve,
\* or the descriptor's path, "/" and the path do not fit PATH_MAX
Unbuildable(dirfd, path) ==
    /\ path # NULL
    /\ CharAt(path, 0) # "/"
    /\ dirfd # AT_FDCWD
    /\ \/ FdPath(dirfd) = NULL
       \/ Len(FdPath(dirfd)) + 1 + Len(path) >= PATH_MAX

\* C10 amended: with SANDBOX_BLOCKED_PATHS set to the empty string and no
\* allocation failure, the loaded list is empty (the default is not used),
\* is_path_blocked answers allowed for every path, and is_path_blocked_at
\* answers allowed except for a relative path with a descriptor other than
\* AT_FDCWD that cannot be resolved or whose path joined with it does not fit
\* PATH_MAX, where it answers blocked.
C10_EmptyEnvAllowsBuildable ==
    (paths_env = env_empty /\ 0 \notin oom)
        => /\ init_once = "DONE" => (blocked_paths_count = 0 /\ blocked_paths = <<>>
                                     /\ initialized = 1 /\ init_failed = 0)
           /\ PlainQuery => ~last.blocked
           /\ AtQuery => (last.blocked <=> Unbuildable(last.dirfd, last.path))

\* C10 witness: with the empty list loaded, openat on a descriptor that
\* resolves is allowed for a path that textually lies under the default /app
C10_EmptyListAllowsApp ==
    /\ paths_env = env_empty /\ 0 \notin oom /\ init_once = "DONE"
    /\ blocked_paths_count = 0
    /\ AtQuery
    /\ last.dirfd = 4
    /\ last.path = Rel(<<n_app, n_x>>)
    /\ ~last.blocked /\ last.forwarded /\ last.reached = p_app_x

(***************************************************************************)
(* C11                                                                     *)
(***************************************************************************)
\* the token with its leading spaces and all its trailing spaces and
\* separators removed
RECURSIVE StripAllTrailing(_)
StripAllTrailing(token) ==
    IF token # <<>> /\ token[Len(token)] \in {" ", "/"}
    THEN StripAllTrailing(Front(token)) ELSE token
FullyTrimmed(token) == StripAllTrailing(SkipLeadingSpaces(token))

\* the tokens of the environment value (of the default when it is unset)
EnvTokens == EnvTokensOf(paths_env)

\* C11: for every value of SANDBOX_BLOCKED_PATHS, after loading every stored
\* prefix is non-empty, starts with "/" and ends neither with a separator
\* nor with a space, and is one of the tokens with its leading spaces and
\* all its trailing spaces and separators removed.
C11_StoredPrefixesClean ==
    (init_once = "DONE" /\ initialized = 1)
        => \A i \in 1..blocked_paths_count :
               /\ blocked_paths[i] # <<>>
               /\ blocked_paths[i][1] = "/"
               /\ blocked_paths[i][Len(blocked_paths[i])] \notin {"/", " "}
               /\ \E j \in 1..Len(EnvTokens) : blocked_paths[i] = FullyTrimmed(EnvTokens[j])

(***************************************************************************)
(* C12                                                                     *)
(***************************************************************************)
\* C12: when dlsym(RTLD_NEXT, ...) does not find a helper the oracle needs
\* (realpath for the resolution check, readlink for the descriptor), the
\* query that reached that lookup answers blocked.
C12_MissingHelperBlocks ==
    (pc = "returned" /\ last.events \cap {"nosym:realpath", "nosym:readlink"} # {})
        => last.blocked

(***************************************************************************)
(* C13                                                                     *)
(***************************************************************************)
\* the concatenations and copies of the checks that can exceed PATH_MAX
OverflowEvents ==
    { "overflow:full_path", "overflow:full_resolved", "overflow:path_copy",
      "overflow:full_linkpath", "overflow:linkpath_copy", "overflow:full_target" }

\* C13: whenever a concatenation or copy made while deciding exceeds PATH_MAX
\* (descriptor directory + "/" + path, resolved parent + "/" + last
\* component, cwd or descriptor directory + "/" + linkpath in symlinkat, link
\* directory + "/" + target), the call is blocked and is not forwarded.
C13_OverflowBlocks ==
    (pc = "returned" /\ last.events \cap OverflowEvents # {})
        => (last.blocked /\ ~last.forwarded)

(***************************************************************************)
(* C14                                                                     *)
(***************************************************************************)
\* the last call gave a relative path with a descriptor, other than
\* AT_FDCWD, that does not resolve to a directory path
UnresolvedDescriptor ==
    /\ pc = "returned"
    /\ last.hook \in {"openat", "symlinkat"}
    /\ last.path # NULL
    /\ CharAt(last.path, 0) # "/"
    /\ last.dirfd # AT_FDCWD
    /\ FdPath(last.dirfd) = NULL

\* C14: a descriptor-relative call with a relative path and a descriptor
\* other than AT_FDCWD that cannot be resolved is blocked: the hook returns
\* -1 with errno = EACCES and the original is not called, whatever the
\* prefix list contains (loaded or not, empty, fail-closed).
C14_UnresolvedDescriptorDenied ==
    UnresolvedDescriptor
        => /\ last.blocked
           /\ ~last.forwarded
           /\ last.ret = "-1"
           /\ last.errno = EACCES

\* C14 witness: with the empty list loaded, openat(9, "x") on the closed
\* descriptor 9 is denied although no prefix is configured
C14_ClosedDescriptorDenied ==
    /\ UnresolvedDescriptor
    /\ last.hook = "openat" /\ last.dirfd = 9 /\ last.path = n_x
    /\ "readlink" \in rtld_next
    /\ init_once = "DONE" /\ initialized = 1 /\ blocked_paths_count = 0
    /\ last.events = {"unresolved:dirfd"}
    /\ last.blocked /\ last.ret = "-1" /\ last.errno = EACCES

(***************************************************************************)
(* C15                                                                     *)
(***************************************************************************)
\* the hooks that return a pointer: a file handle, a directory handle, a string
PointerHooks == {"fopen", "freopen", "opendir", "realpath"}
\* the hooks that leave directories, files, links and cwd as they are
ReadingHooks == {"open", "fopen", "freopen", "opendir", "readlink", "openat"}

\* what the original implementation answers for the call recorded in last
Original ==
    IF last.hook = "freopen" /\ last.path = NULL THEN ReopenStream
    ELSE Kernel(last.path, last.dirfd, last.hook # "readlink")

\* C15: on every blocked call the hook sets errno to EACCES and returns the
\* failure value of its family: -1 for the hooks returning an int or a
\* ssize_t, a null pointer for those returning a FILE *, a DIR * or a string.
\* On an allowed call the hook returns what the original implementation
\* returns, its errno included (checked for the hooks that leave the
\* filesystem as it is, whose original can be asked again).
C15_DenialAndPassThrough ==
    pc = "returned"
        => /\ last.blocked
                  => /\ last.errno = EACCES
                     /\ last.ret = IF last.hook \in PointerHooks THEN "NULL" ELSE "-1"
           /\ (~last.blocked /\ last.hook \in ReadingHooks)
                  => /\ last.forwarded
                     /\ (last.ret = "OK") <=> (Original.ret = "OK")
                     /\ last.ret # "OK"
                            => last.ret = IF last.hook \in PointerHooks THEN "NULL" ELSE "-1"
                     /\ last.errno = Original.errno

\* C15 witness: fopen("/app/x") with /app in the list is blocked and returns
\* a null pointer with errno = EACCES
C15_FopenDenied ==
    /\ pc = "returned" /\ LoadedOpen
    /\ last.hook = "fopen" /\ last.path = p_app_x
    /\ SomePrefixMatches(p_app_x)
    /\ last.blocked /\ ~last.forwarded
    /\ last.ret = "NULL" /\ last.errno = EACCES

(***************************************************************************)
(* C16                                                                     *)
(***************************************************************************)
\* the hooks of the model whose original changes directories, files or links
MutatingHooks == {"mkdir", "rmdir", "unlink", "rename", "symlink", "symlinkat"}

\* the oracle, asked before the call, blocks a path the call involves: the
\* path, for rename the old or the new path, for symlinkat the link path
\* with its descriptor
OracleBlocks(hook, path, path2, dirfd) ==
    IF hook = "symlinkat" THEN is_path_blocked_at(dirfd, path, ensure_initialized).ret = 1
    ELSE IF hook = "rename" THEN Decision(path) \/ Decision(path2)
    ELSE Decision(path)

\* C16: every blocked call leaves the filesystem unchanged: for every
\* mutating hook, when the oracle blocks a path involved (for rename the old
\* or the new path) the hook denies, the original implementation is not
\* invoked, and no directory, file or link is created, removed or modified.
C16_BlockedCallChangesNothing ==
    [][ (pc = "idle" /\ pc' = "returned" /\ last'.hook \in MutatingHooks)
            => /\ OracleBlocks(last'.hook, last'.path, last'.path2, last'.dirfd)
                      => last'.blocked
               /\ last'.blocked
                      => /\ ~last'.forwarded
                         /\ last'.ret = "-1"
                         /\ UNCHANGED <<dirs, files, links, cwd>> ]_vars

\* C16 witness: rename("/app/x", "/tmp/new") with /tmp in the list and /app
\* not: only the new path is blocked, the call is denied and /app/x is where
\* it was, although the original would have moved it
C16_RenameDeniedForNewPath ==
    /\ pc = "returned" /\ LoadedOpen
    /\ last.hook = "rename" /\ last.path = p_app_x /\ last.path2 = p_tmp_new
    /\ ~Decision(p_app_x) /\ Decision(p_tmp_new)
    /\ last.blocked /\ ~last.forwarded
    /\ orig_rename(p_app_x, p_tmp_new).ret = "OK"
    /\ p_app_x \in files /\ ~Exists(p_tmp_new)
    /\ changes = 0

(***************************************************************************)
(* C17                                                                     *)
(***************************************************************************)
\* the directory in which the original creates the link named linkpath, NULL
\* when it creates none
CreatedIn(at) == IF at.ok /\ at.loc # <<>> THEN PathOf(Front(at.loc)) ELSE NULL
LinkDirectory(dirfd, linkpath) ==
    IF linkpath = NULL \/ (CharAt(linkpath, 0) # "/" /\ BaseDir(dirfd) = NULL) THEN NULL
    ELSE CreatedIn(Resolve(linkpath, BaseDir(dirfd), TRUE, FALSE))

\* the oracle blocks target taken from the directory linkdir
CompositeBlocked(linkdir, target) ==
    linkdir # NULL /\ Decision(linkdir \o <<"/">> \o target)

\* C17: for symlink and symlinkat with a relative target, whatever the form
\* of the link path, the hook denies the call whenever the oracle blocks
\* linkdir/target, linkdir being the directory in which the link will be
\* created; the descriptor-relative form is denied when the descriptor does
\* not resolve; no link is created on denial.
C17_RelativeTargetChecked ==
    [][ (pc = "idle" /\ pc' = "returned" /\ last'.hook \in {"symlink", "symlinkat"}
            /\ last'.path2 # NULL /\ CharAt(last'.path2, 0) # "/")
            => /\ CompositeBlocked(LinkDirectory(last'.dirfd, last'.path), last'.path2)
                      => last'.blocked
               /\ (last'.path # NULL /\ CharAt(last'.path, 0) # "/"
                       /\ BaseDir(last'.dirfd) = NULL)
                      => last'.blocked
               /\ last'.blocked => links' = links ]_vars

(***************************************************************************)
(* C18                                                                     *)
(***************************************************************************)
\* the location the symlink at path p resolves to, NULL when it dangles
ResolvesTo(p) == Kernel(p, AT_FDCWD, TRUE)
\* no symlink there before the process starts leads into a prefix of the list
CleanStart == \A l \in InitialLinks : ~Forbidden(l[2])

\* C18: starting from a filesystem in which no symlink resolves into a
\* forbidden prefix, after any sequence of symlink, symlinkat, rename, mkdir
\* and rmdir calls the shim allowed, no symlink exists whose chain of targets
\* resolves to a location equal to or beneath a forbidden prefix.
C18_NoLinkIntoPrefix ==
    (LoadedOpen /\ CleanStart)
        => \A l \in links :
               ResolvesTo(l[1]).ret = "OK" => ~Forbidden(ResolvesTo(l[1]).reached)

(***************************************************************************)
(* C19                                                                     *)
(***************************************************************************)
\* the states of the loading the specification names
Phase ==
    IF init_once = "INIT" THEN "UNINITIALIZED"
    ELSE IF init_once = "IN_PROGRESS" THEN "INITIALIZING"
    ELSE IF init_failed = 1 THEN "FAIL_CLOSED"
    ELSE "READY"

\* the statics as the dynamic loader leaves them (lines 37-42)
Unloaded == [initialized |-> 0, init_failed |-> 0, blocked_paths |-> <<>>,
             blocked_paths_count |-> 0]

\* C19: under any interleaving of the constructor and concurrent first
\* callers, the loader body runs exactly once; the state moves only
\* UNINITIALIZED -> INITIALIZING -> READY or FAIL_CLOSED, ending with what one
\* run of the loader on the environment value leaves; no query reads the
\* prefix list or the fail-closed flag before loading has finished; once
\* READY or FAIL_CLOSED is reached the list, its count and both flags never
\* change again.
C19_LoadedOnceThenFrozen ==
    /\ [](/\ loader.runs <= 1
          /\ init_once = "DONE" => loader.runs = 1
          /\ init_once = "DONE" => Config = init_blocked_paths(Unloaded, paths_env, oom)
          /\ \A t \in Threads :
                 thread[t] = "check"
                     => /\ init_once = "DONE"
                        /\ \A u \in Threads : thread[u] # "loading"
                        /\ initialized = 1 \/ init_failed = 1)
    /\ [][ /\ Phase' # Phase
               => <<Phase, Phase'>> \in { <<"UNINITIALIZED", "INITIALIZING">>,
                                          <<"INITIALIZING", "READY">>,
                                          <<"INITIALIZING", "FAIL_CLOSED">> }
           /\ init_once = "DONE"
               => UNCHANGED <<init_once, initialized, init_failed, blocked_paths,
                              blocked_paths_count>> ]_vars

\* C19 witness: the two callers and the constructor have all passed
\* ensure_initialized, one of them having run the loader on four tokens up to
\* the cap, and a caller has read the frozen list
C19_AllThreadsPastLoad ==
    /\ \A t \in Threads : thread[t] = "done"
    /\ loader.runs = 1
    /\ init_once = "DONE" /\ initialized = 1 /\ init_failed = 0
    /\ paths_env = env_many
    /\ blocked_paths_count = MAX_BLOCKED_PATHS
    /\ last.checked /\ last.trace = blocked_paths

(***************************************************************************)
(* C20                                                                     *)
(***************************************************************************)
\* C20 as stated: the decision a thread gets for a path string is the same
\* before and after any hooked operation another thread performs (chdir,
\* symlink, rename, mkdir, unlink), since it depends only on the policy state.
C20_DecisionDependsOnPolicyOnly ==
    (pc = "returned" /\ last.hook # "none")
        => last.before.decisions = Decisions

\* C20 amended: the policy a query works with is never changed by a call,
\* and a call that leaves the working directory and the filesystem as they
\* are leaves every decision as it is.
C20_DecisionDependsOnPolicyCwdAndFilesystem ==
    (pc = "returned" /\ last.hook # "none")
        => /\ last.before.policy = ensure_initialized
           /\ last.before.host = Host => last.before.decisions = Decisions

\* C20 witness: after an allowed chdir("..") from /ws, openat(AT_FDCWD,
\* "app/x") is denied under the loaded default list, the path string now
\* naming /app/x; the call changed neither the host nor the policy, and a
\* second thread gets the same decisions before and after it
C20_SamePathDeniedAfterChdir ==
    /\ pc = "returned"
    /\ LoadedOpen
    /\ paths_env = NULL
    /\ cwd = Root
    /\ last.hook = "openat" /\ last.dirfd = AT_FDCWD
    /\ last.path = Rel(<<n_app, n_x>>)
    /\ last.blocked
    /\ Decision(last.path)
    /\ last.before.host = Host /\ last.before.decisions = Decisions
    /\ last.before.policy = Config
    /\ links = InitialLinks /\ changes = 0

(***************************************************************************)
(* C21                                                                     *)
(***************************************************************************)
\* the number of hook entries on the calling thread's stack during the call
\* l, counted up to two: a use bound to the library's own definition enters
\* a hook inside the hook
hook_depth(l) == IF \E k \in l.calls : k[3] = "shim" THEN 2 ELSE 1

\* C21: no hook and no helper it calls (loader, canonicalizer, resolver,
\* descriptor resolver, oracle) invokes an interposed name: every use of
\* realpath and readlink inside the library is bound by the next-symbol
\* lookup, the depth of nested hook entries is never more than one, and the
\* loader uses no interposed name, so it never comes back to the once control.
C21_NoHookReentered ==
    (pc \in {"returned", "crashed"} /\ last.hook # "none")
        => /\ \A k \in last.calls :
                  k[2] \in Interposed => k[3] \in {"next", "null"}
           /\ hook_depth(last) = 1
           /\ \A k \in LoaderUses : k[2] \notin Interposed /\ k[3] = "next"

\* C21 witness: the first call of the process is openat(3, "x"), forwarded:
\* the loader has run inside it, the descriptor was read with the next
\* readlink, the path resolved with the next realpath, the working directory
\* not asked for, and the original openat called
C21_OpenatUsesNextSymbols ==
    /\ pc = "returned"
    /\ last.hook = "openat" /\ last.dirfd = 3 /\ last.path = n_x
    /\ last.forwarded
    /\ LoaderUses \subseteq last.calls
    /\ <<"is_path_blocked_at", "readlink", "next">> \in last.calls
    /\ <<"is_resolved_path_blocked", "realpath", "next">> \in last.calls
    /\ <<"openat", "openat", "next">> \in last.calls
    /\ hook_depth(last) = 1

(***************************************************************************)
(* C22                                                                     *)
(***************************************************************************)
\* the directory part and the last component of a canonical path
ParentOf(N) == IF LastIndex(N, "/") = 1 THEN Root ELSE SubSeq(N, 1, LastIndex(N, "/") - 1)
LastOf(N) == SubSeq(N, LastIndex(N, "/") + 1, Len(N))

\* the path formed by the directory D and the component name
InDirectory(D, name) == IF D = Root THEN Root \o name ELSE D \o <<"/">> \o name

\* the last call was a plain query whose canonical path N did not resolve as
\* a whole, while its parent directory resolved to a directory; the path
\* formed with it fits the buffer
ParentFallback(N) ==
    /\ PlainQuery /\ LoadedOpen /\ "realpath" \in rtld_next
    /\ blocked_paths_count > 0
    /\ last.path # NULL
    /\ N = normalize_path(last.path, PATH_MAX)
    /\ N # NULL /\ N # Root
    /\ orig_realpath(N) = NULL
    /\ orig_realpath(ParentOf(N)) # NULL
    /\ Len(orig_realpath(ParentOf(N))) + 1 + Len(LastOf(N)) < PATH_MAX

\* C22: when the canonical path does not resolve as a whole but its parent
\* resolves to a directory D, the oracle answers blocked iff the path formed
\* by D and the last component is equal to or beneath a forbidden prefix,
\* for every D, the root directory included.
C22_ParentFallbackDecides ==
    \A N \in {normalize_path(last.path, PATH_MAX)} :
        ParentFallback(N)
            => (last.blocked
                    <=> \/ Forbidden(N)
                        \/ Forbidden(InDirectory(orig_realpath(ParentOf(N)), LastOf(N))))

(***************************************************************************)
(* C23                                                                     *)
(***************************************************************************)
\* C23: with two threads, the decision of a hook still holds when its
\* forwarded call executes: whatever allowed hooked operations (rename,
\* rmdir, symlink, chdir) another thread performs between the check and the
\* call of the original, a call allowed for a location under no forbidden
\* prefix does not operate on a location equal to or beneath one.
C23_DecisionHoldsAtForward ==
    (pending.stage = "forwarded" /\ LoadedOpen /\ ~Forbidden(pending.checked_at))
        => ~Forbidden(pending.reached)

(***************************************************************************)
(* C24                                                                     *)
(***************************************************************************)
\* C24: no admission query reads a prefix entry that has been freed: a hook
\* called after the destructor has released the list does not compare its
\* path against freed entries; the count of entries a query reads never
\* exceeds the number of live entries.
C24_NoFreedEntryRead ==
    (pc \in {"returned", "crashed"} /\ last.checked /\ init_failed = 0
        /\ last.path # NULL)
        => /\ "read:freed" \notin last.events
           /\ blocked_paths_count <= LiveEntries

====
